---- MODULE Spec2Model ----
(***************************************************************************)
(* A model of the Adafruit PyPortal driver: the PyPortal class of          *)
(* adafruit_pyportal.py (construction, fetch, set_backlight, set_caption,  *)
(* set_text, play_file, wrap_nicely) and the Peripherals helper of         *)
(* adafruit_pyportal/peripherals.py (SD initialisation, sd_check,          *)
(* play_file, speaker_disable).                                            *)
(*                                                                         *)
(* Python strings are sequences of one-character strings.  Python None is  *)
(* the string "None" where the value is otherwise a name, and the empty    *)
(* sequence where the value is otherwise a sequence.                       *)
(***************************************************************************)
EXTENDS Integers, Sequences, FiniteSets, TLC

\* ------------------------------------------------------------------ bounds
\* longest string handed to wrap_nicely
MaxLen == 5
\* largest max_chars handed to wrap_nicely
MaxChars == 5
\* failed WiFi connection attempts before one succeeds
MaxConnectFail == 1

\* ------------------------------------------------------- program constants
\* full scale of the PWM duty cycle
DutyMax == 65535

\* ------------------------------------------------------------ str helpers
\* str.replace(old, '') for a one-character old
Remove(s, c) == SelectSeq(s, LAMBDA x : x # c)

\* str.split(' '): one piece per separator, empty pieces kept
RECURSIVE Split(_)
Split(s) ==
    IF \A i \in 1..Len(s) : s[i] # " "
    THEN <<s>>
    ELSE LET k == CHOOSE i \in 1..Len(s) :
                     s[i] = " " /\ \A j \in 1..(i-1) : s[j] # " "
         IN  <<SubSeq(s, 1, k-1)>> \o Split(SubSeq(s, k+1, Len(s)))

\* sep.join(parts)
RECURSIVE Join(_, _)
Join(sep, parts) ==
    IF parts = <<>> THEN <<>>
    ELSE IF Len(parts) = 1 THEN parts[1]
    ELSE parts[1] \o sep \o Join(sep, Tail(parts))

\* s[1:]
DropFirst(s) == IF s = <<>> THEN <<>> ELSE Tail(s)

\* s[:n] for n >= 0
Prefix(s, n) == SubSeq(s, 1, IF n < Len(s) THEN n ELSE Len(s))

\* ------------------------------------------------------------ wrap_nicely
\* the mutant of Fits: the space between the words is not counted
FitsNoSpace(the_line, w, max_chars) == Len(the_line \o w) <= max_chars

\* the test of the wrapping loop: len(the_line+' '+w) <= max_chars
Fits(the_line, w, max_chars) == Len(the_line \o <<" ">> \o w) <= max_chars

\* the for loop over the words, from word i on; the result is the pair
\* (the_lines, the_line) the loop ends with
RECURSIVE WrapLoop(_, _, _, _, _)
WrapLoop(words, i, the_lines, the_line, max_chars) ==
    IF i > Len(words) THEN [the_lines |-> the_lines, the_line |-> the_line]
    ELSE IF Fits(the_line, words[i], max_chars)
         THEN WrapLoop(words, i+1, the_lines,
                       the_line \o <<" ">> \o words[i], max_chars)
         ELSE WrapLoop(words, i+1, Append(the_lines, the_line),
                       words[i], max_chars)

\* the first space of the first line is removed: the_lines[0][1:]
StripFirst(the_lines) == [the_lines EXCEPT ![1] = DropFirst(the_lines[1])]

wrap_nicely(string, max_chars) ==
    LET stripped == Remove(Remove(string, "\n"), "\r")
        words    == Split(stripped)
        r        == WrapLoop(words, 1, <<>>, <<>>, max_chars)
        all      == IF r.the_line # <<>>
                    THEN Append(r.the_lines, r.the_line)
                    ELSE r.the_lines
    IN  StripFirst(all)

\* ------------------------------------------------------------------ JSON
\* A parsed JSON value: a string or an object (its members in order).
NoneNode == [kind |-> "none", s |-> <<>>, kv |-> <<>>]
Str(s) == [kind |-> "str", s |-> s, kv |-> <<>>]
Obj(kv) == [kind |-> "obj", s |-> <<>>, kv |-> kv]
Member(k, v) == [k |-> k, v |-> v]

\* the reply bodies the data source can send
BodyA == <<"{", "\"", "a", "\"", ":", "\"", "7", "\"", ",",
           "\"", "i", "\"", ":", "\"", "u", "\"", "}">>
BodyB == <<"{", "\"", "a", "\"", ":", "{", "\"", "b", "\"", ":",
           "\"", "x", "=", "5", "\"", "}", "}">>
BodyT == <<"x", "=", "5", " ", "y", "=", "6", " ", "x", "=", "7">>
Bodies == {BodyA, BodyB, BodyT}

\* r.json(): json.loads(r.text); a text that is no JSON raises ValueError
JsonLoads(text) ==
    CASE text = BodyA ->
           [exc |-> "none",
            v |-> Obj(<<Member("a", Str(<<"7">>)), Member("i", Str(<<"u">>))>>)]
      [] text = BodyB ->
           [exc |-> "none",
            v |-> Obj(<<Member("a",
                     Obj(<<Member("b", Str(<<"x", "=", "5">>))>>))>>)]
      [] OTHER -> [exc |-> "ValueError", v |-> NoneNode]

\* value[x] for a key x: a dict without the key raises KeyError, a value
\* that is no dict raises TypeError
HasKey(value, x) == \E i \in 1..Len(value.kv) : value.kv[i].k = x
Subscript(value, x) ==
    IF value.kind # "obj" THEN [exc |-> "TypeError", v |-> NoneNode]
    ELSE IF ~HasKey(value, x) THEN [exc |-> "KeyError", v |-> NoneNode]
    ELSE [exc |-> "none",
          v |-> value.kv[CHOOSE i \in 1..Len(value.kv) : value.kv[i].k = x].v]

\* _json_traverse(json, path): value = json; for x in path: value = value[x]
RECURSIVE TraverseFrom(_, _, _)
TraverseFrom(value, path, i) ==
    IF i > Len(path) THEN [exc |-> "none", v |-> value]
    ELSE LET nxt == Subscript(value, path[i])
         IN  IF nxt.exc # "none" THEN nxt
             ELSE TraverseFrom(nxt.v, path, i+1)

_json_traverse(json, path) == TraverseFrom(json, path, 1)

\* ---------------------------------------------------------------- regexp
\* A regexp lit(.) is given by its literal: it matches the literal followed
\* by one character other than a newline, which is its group 1.
MatchesAt(lit, text, i) ==
    /\ i + Len(lit) <= Len(text)
    /\ SubSeq(text, i, i + Len(lit) - 1) = lit
    /\ text[i + Len(lit)] # "\n"

\* re.search(regexp, text).group(1); no match gives None, whose .group
\* raises AttributeError
ReSearchGroup1(lit, text) ==
    IF \E i \in 1..Len(text) : MatchesAt(lit, text, i)
    THEN LET i == CHOOSE k \in 1..Len(text) :
                     MatchesAt(lit, text, k)
                     /\ \A j \in 1..(k-1) : ~MatchesAt(lit, text, j)
         IN  [exc |-> "none", v |-> Str(<<text[i + Len(lit)]>>)]
    ELSE [exc |-> "AttributeError", v |-> NoneNode]

\* ------------------------------------------------------------- str(), int()
\* str(node): a str is itself, a dict is printed as Python prints it
RECURSIVE PyRepr(_)
RECURSIVE PyReprMembers(_, _)
PyReprMembers(kv, i) ==
    IF i > Len(kv) THEN <<>>
    ELSE (IF i > 1 THEN <<",", " ">> ELSE <<>>)
         \o <<"'", kv[i].k, "'", ":", " ">> \o PyRepr(kv[i].v)
         \o PyReprMembers(kv, i+1)
PyRepr(node) ==
    IF node.kind = "str" THEN <<"'">> \o node.s \o <<"'">>
    ELSE IF node.kind = "obj" THEN <<"{">> \o PyReprMembers(node.kv, 1) \o <<"}">>
    ELSE <<"N", "o", "n", "e">>

PyStr(node) == IF node.kind = "str" THEN node.s ELSE PyRepr(node)

Digits == <<"0", "1", "2", "3", "4", "5", "6", "7", "8", "9">>
IsDigit(c) == \E d \in 1..10 : Digits[d] = c
DigitVal(c) == (CHOOSE d \in 1..10 : Digits[d] = c) - 1

\* int(s) accepts a str of digits (here without sign or blanks)
IsIntStr(s) == s # <<>> /\ \A i \in 1..Len(s) : IsDigit(s[i])
RECURSIVE IntVal(_)
IntVal(s) == IF s = <<>> THEN 0
             ELSE 10 * IntVal(SubSeq(s, 1, Len(s)-1)) + DigitVal(s[Len(s)])

RECURSIVE DigitsOf(_)
DigitsOf(n) == IF n < 10 THEN <<Digits[n+1]>>
               ELSE DigitsOf(n \div 10) \o <<Digits[(n % 10) + 1]>>

\* "{:,d}".format(n) for n >= 0: groups of three digits, comma separated
RECURSIVE FormatComma(_)
FormatComma(n) ==
    IF n < 1000 THEN DigitsOf(n)
    ELSE FormatComma(n \div 1000) \o <<",">>
         \o <<Digits[((n \div 100) % 10) + 1], Digits[((n \div 10) % 10) + 1],
              Digits[(n % 10) + 1]>>

\* ------------------------------------------------------------------ state
VARIABLES
    env,        \* the board and its files: what the constructor finds
    pc,         \* where the program is: "new", "idle", inside a call, ...
    call,       \* the call in progress, or the last one
    args,       \* the arguments of that call
    exc,        \* the exception that ended that call, "none" when it returned
    ret,        \* what that call returned
    log,        \* what that call did to the outside world, in order
    self,       \* the fields of the PyPortal object
    display,    \* backlight, display brightness and the splash group
    audio,      \* speaker enable pin, audio output, the wav file of play_file
    sd,         \* the "/sd" mount and the 'No SD card found' report
    esp,        \* the WiFi coprocessor: is_connected
    loc,        \* the local variables of fetch
    cb_arg,     \* what success_callback was last called with
    requested,  \* the url of the last requests.get of fetch
    wrap        \* a call of the static method wrap_nicely

vars == <<env, pc, call, args, exc, ret, log, self, display, audio, sd, esp,
          loc, cb_arg, requested, wrap>>

Ev(e) == [ev |-> e, exc |-> "none"]
Raised(e, x) == [ev |-> e, exc |-> x]
Events(l) == {l[i].ev : i \in 1..Len(l)}

\* Python truth of a url-like value: None and '' are false
Truthy(u) == u \notin {"None", ""}

NoLabel == [present |-> FALSE, text |-> <<>>, pos |-> "None", color |-> "None"]
Label(text, pos, color) ==
    [present |-> TRUE, text |-> text, pos |-> pos, color |-> color]

\* the elements of the splash group
BgGroup == [kind |-> "bg_group", i |-> 0]
CaptionElem == [kind |-> "caption", i |-> 0]
TextElem(index) == [kind |-> "text", i |-> index]

NoArgs == [val |-> 0, file |-> "None", wait |-> FALSE, text |-> <<>>,
           position |-> "None", color |-> "None", url |-> "None",
           node |-> NoneNode, index |-> 0]

NoValues == [islist |-> TRUE, items |-> <<>>, text |-> <<>>]
NoLocals == [r |-> <<>>, json_out |-> NoneNode, values |-> NoValues,
             image_url |-> <<>>]

NoWrap == [string |-> <<>>, max_chars |-> 0, lines |-> <<>>, done |-> FALSE]

\* the object before __init__ ran
NoSelf ==
    [_url |-> "None", _json_path |-> <<>>, _regexp_path |-> <<>>,
     _success_callback |-> FALSE, _uselocal |-> FALSE, _backlight |-> "None",
     _sdcard |-> FALSE, _caption_font |-> "unset", _text_font |-> "None",
     _text_position |-> <<>>, _text_color |-> <<>>, _text_wrap |-> <<>>,
     _text_maxlen |-> <<>>, _image_json_path |-> <<>>,
     _image_url_path |-> <<>>]

NoDisplay ==
    [duty_cycle |-> 0, auto_brightness |-> TRUE, brightness |-> 100,
     splash |-> <<>>, _caption |-> NoLabel, _text |-> <<>>, bg |-> "none"]

NoAudio == [speaker_enable |-> FALSE, playing |-> FALSE, wavfile |-> "none"]

\* ----------------------------------------------------------- set_backlight
\* Brightness values are exact hundredths: val = 37 stands for 0.37.
Min2(a, b) == IF a < b THEN a ELSE b
Max2(a, b) == IF a > b THEN a ELSE b

\* the mutant of Clamp: the upper limit is forgotten
ClampNoUpper(val) == Max2(0, val)

\* val = max(0, min(1.0, val))
Clamp(val) == Max2(0, Min2(100, val))

\* the rest of set_backlight: the PWM duty cycle, or the display brightness
set_backlight(d, backlight, val) ==
    IF backlight = "pwm"
    THEN [d EXCEPT !.duty_cycle = (Clamp(val) * DutyMax) \div 100]
    ELSE [d EXCEPT !.auto_brightness = FALSE, !.brightness = Clamp(val)]

\* ---------------------------------------------------------- set_background
\* default_bg is the colour 0x000000, which Python takes for false: the
\* background group is emptied and nothing is put into it.  A bitmap file
\* that displayio cannot read raises ValueError after the group was emptied.
DefaultBg == "0"
set_background(d, file_or_color, readable) ==
    IF file_or_color = "0" THEN [exc |-> "none", d |-> [d EXCEPT !.bg = "empty"]]
    ELSE IF ~readable THEN [exc |-> "ValueError", d |-> [d EXCEPT !.bg = "empty"]]
    ELSE [exc |-> "none", d |-> [d EXCEPT !.bg = file_or_color]]

\* ------------------------------------------------------------- SD card
\* SDCard(spi, sd_cs) raises OSError without a card; VfsFat/mount raise
\* OSError for a card without a FAT filesystem.  _sdcard is assigned before
\* the mount is tried.
SdInit(card) ==
    [_sdcard  |-> card # "none",
     mounted  |-> card = "ok",
     reported |-> card # "ok"]

\* ------------------------------------------------------------ _connect_esp
\* while not is_connected: connect, a RuntimeError is printed and retried.
\* An ssid left at 'CHANGE ME' raises OSError before any attempt.
_connect_esp(connected, fails) ==
    IF connected THEN [exc |-> "none", events |-> <<>>, connected |-> TRUE]
    ELSE IF ~env.ssid_ok
         THEN [exc |-> "OSError", events |-> <<>>, connected |-> FALSE]
         ELSE [exc |-> "none",
               events |-> [i \in 1..(fails+1) |-> Ev("connect")],
               connected |-> TRUE]

\* ------------------------------------------------------------- set_caption
\* self._caption_font is assigned by __init__ only when caption_font was
\* given: reading it otherwise raises AttributeError.  The `or` stops at
\* its first true operand.
set_caption(s, d, text, position, color) ==
    IF text = <<>> THEN [exc |-> "none", d |-> d]
    ELSE IF s._caption_font = "unset" THEN [exc |-> "AttributeError", d |-> d]
    ELSE IF position = "None" THEN [exc |-> "none", d |-> d]
    ELSE IF d._caption.present
         THEN [exc |-> "none", d |-> [d EXCEPT !._caption.text = text]]
         ELSE [exc |-> "none",
               d |-> [d EXCEPT !._caption = Label(text, position, color),
                               !.splash = Append(@, CaptionElem)]]

\* ---------------------------------------------------------------- set_text
\* Text boxes are numbered from 1 here (from 0 in the code).
Reverse(q) == [i \in 1..Len(q) |-> q[Len(q) + 1 - i]]

\* the pop loop of set_text and what follows it: everything above the old
\* label is popped, the new label appended, the popped items appended in the
\* order they were popped
ReplaceInSplash(splash, elem) ==
    IF \E k \in 1..Len(splash) : splash[k] = elem
    THEN LET k == CHOOSE j \in 1..Len(splash) :
                     splash[j] = elem
                     /\ \A m \in (j+1)..Len(splash) : splash[m] # elem
         IN  SubSeq(splash, 1, k-1) \o <<elem>>
             \o Reverse(SubSeq(splash, k+1, Len(splash)))
    ELSE <<elem>> \o Reverse(splash)

\* the mutant of TextToShow: the string is never cut
TextToShowUncut(s, string, index) == string

\* string = str(val); cut to text_maxlen when that is not 0
TextToShow(s, string, index) ==
    IF s._text_maxlen[index] # 0
    THEN Prefix(string, s._text_maxlen[index])
    ELSE string

set_text(s, d, string, index) ==
    IF s._text_font = "None" THEN d
    ELSE LET lbl == Label(TextToShow(s, string, index),
                          s._text_position[index], s._text_color[index])
         IN  IF d._text[index].present
             THEN [d EXCEPT !._text[index] = lbl,
                            !.splash = ReplaceInSplash(@, TextElem(index))]
             ELSE IF s._text_position[index] # "None"
                  THEN [d EXCEPT !._text[index] = lbl,
                                 !.splash = Append(@, TextElem(index))]
                  ELSE d

\* ---------------------------------------------------------------- __init__
\* if json_path: a list of paths is kept, one path becomes (json_path,)
JsonPathOf(jp) ==
    IF jp.form = "nested" THEN jp.nested
    ELSE IF jp.form = "flat" /\ jp.flat # <<>> THEN <<jp.flat>>
    ELSE <<>>

NoJsonPath == [form |-> "none", flat |-> <<>>, nested |-> <<>>]
FlatPath(path) == [form |-> "flat", flat |-> path, nested |-> <<>>]
NestedPath(paths) == [form |-> "nested", flat |-> <<>>, nested |-> paths]

NoText == [font |-> FALSE, position |-> "None", color |-> "None",
           wrap |-> 0, maxlen |-> 0, boxes |-> <<>>]

\* One text box: its position, colour, wrap width and maximum length.
Box(text_position, text_color, text_wrap, text_maxlen) ==
    [position |-> text_position, color |-> text_color, wrap |-> text_wrap,
     maxlen |-> text_maxlen]

\* The text boxes __init__ keeps: text_position, text_color, text_wrap and
\* text_maxlen are lists when text_position[0] is a list or tuple (boxes,
\* with 0 where text_wrap or text_maxlen is not given), and are made
\* 1-tuples otherwise.
TextBoxes(t) ==
    IF t.boxes # <<>> THEN t.boxes
    ELSE <<Box(t.position, t.color, t.wrap, t.maxlen)>>

DefaultArgs ==
    [url |-> "None", json_path |-> NoJsonPath, regexp_path |-> <<>>,
     image_json_path |-> <<>>, image_url_path |-> <<>>,
     success_callback |-> FALSE, caption_text |-> <<>>,
     caption_font |-> "None", caption_position |-> "None",
     caption_color |-> "808080", text |-> NoText]

\* The boot screens /thankyou.bmp and /pyportal_startup.bmp are absent, the
\* ESP32 answers, and no status NeoPixel is given.  The start-up sound is
\* played to its end when pyportal_startup.wav exists.
Construct(a, fails) ==
    /\ pc = "new"
    /\ LET bl   == IF env.pwm THEN "pwm" ELSE "None"
           d0   == set_backlight([NoDisplay EXCEPT !.splash = <<BgGroup>>],
                                 bl, 100)
           au   == IF env.wav THEN [NoAudio EXCEPT !.wavfile = "closed"]
                   ELSE NoAudio
           s0   == [NoSelf EXCEPT
                      !._backlight = bl,
                      !._url = a.url,
                      !._json_path = JsonPathOf(a.json_path),
                      !._regexp_path = a.regexp_path,
                      !._success_callback = a.success_callback,
                      !._uselocal = env.localfile]
           con  == IF Truthy(a.url) /\ ~s0._uselocal
                   THEN _connect_esp(esp, fails)
                   ELSE [exc |-> "none", events |-> <<>>, connected |-> esp]
           d1   == set_background(d0, DefaultBg, TRUE).d
           sdr  == SdInit(env.sd)
           s1   == [s0 EXCEPT
                      !._sdcard = sdr._sdcard,
                      !._caption_font = IF a.caption_font = "None"
                                        THEN "unset" ELSE a.caption_font]
           cap  == set_caption(s1, d1, a.caption_text, a.caption_position,
                               a.caption_color)
           \* isinstance(text_position[0], ...) with text_position None
           texterr == a.text.font /\ a.text.boxes = <<>>
                      /\ a.text.position = "None"
           bx   == TextBoxes(a.text)
           num  == 1..Len(bx)
           s2   == IF a.text.font
                   THEN [s1 EXCEPT
                           !._text_font = "font",
                           !._text_position = [i \in num |-> bx[i].position],
                           !._text_color = [i \in num |-> bx[i].color],
                           !._text_wrap = [i \in num |-> bx[i].wrap],
                           !._text_maxlen = [i \in num |-> bx[i].maxlen]]
                   ELSE s1
           d2   == IF a.text.font
                   THEN [cap.d EXCEPT !._text = [i \in num |-> NoLabel]]
                   ELSE cap.d
           s3   == [s2 EXCEPT !._image_json_path = a.image_json_path,
                              !._image_url_path = a.image_url_path]
           d3   == set_backlight(d2, bl, 100)
           sdNo == [mounted |-> FALSE, reported |-> FALSE]
           sdOn == [mounted |-> sdr.mounted, reported |-> sdr.reported]
       IN  /\ call' = "__init__"
           /\ args' = NoArgs
           /\ ret' = "None"
           /\ log' = con.events
           /\ esp' = con.connected
           /\ audio' = au
           /\ IF con.exc # "none"
              THEN pc' = "dead" /\ exc' = con.exc /\ self' = s0
                   /\ display' = d0 /\ sd' = sdNo
              ELSE IF cap.exc # "none"
              THEN pc' = "dead" /\ exc' = cap.exc /\ self' = s1
                   /\ display' = d1 /\ sd' = sdOn
              ELSE IF texterr
              THEN pc' = "dead" /\ exc' = "TypeError" /\ self' = s1
                   /\ display' = cap.d /\ sd' = sdOn
              ELSE pc' = "idle" /\ exc' = "none" /\ self' = s3
                   /\ display' = d3 /\ sd' = sdOn
    /\ UNCHANGED <<env, loc, cb_arg, requested, wrap>>

\* ------------------------------------------------- calls on the peripherals
fetchVars == <<loc, cb_arg, requested>>

\* set_backlight(val), val in hundredths
BacklightVals == {-50, 0, 1, 37, 99, 100, 101, 250}
SetBacklight(val) ==
    /\ pc = "idle"
    /\ call' = "set_backlight"
    /\ args' = [NoArgs EXCEPT !.val = val]
    /\ display' = set_backlight(display, self._backlight, val)
    /\ exc' = "none" /\ ret' = "None" /\ log' = <<>>
    /\ UNCHANGED <<env, pc, self, audio, sd, esp, wrap>>
    /\ UNCHANGED fetchVars

\* sd_check(): True when self._sdcard is set
sd_check(s) == IF s._sdcard THEN "True" ELSE "False"

SdCheck ==
    /\ pc = "idle"
    /\ call' = "sd_check"
    /\ args' = NoArgs
    /\ ret' = sd_check(self)
    /\ exc' = "none" /\ log' = <<>>
    /\ UNCHANGED <<env, pc, self, display, audio, sd, esp, wrap>>
    /\ UNCHANGED fetchVars

\* the property speaker_disable and its setter
speaker_disable(a) == ~a.speaker_enable

SetSpeakerDisable(value) ==
    /\ pc = "idle"
    /\ call' = "speaker_disable"
    /\ args' = [NoArgs EXCEPT !.wait = value]
    /\ audio' = [audio EXCEPT !.speaker_enable = ~value]
    /\ exc' = "none" /\ ret' = "None" /\ log' = <<>>
    /\ UNCHANGED <<env, pc, self, display, sd, esp, wrap>>
    /\ UNCHANGED fetchVars

\* the wav files a program may name; open() raises OSError for the others
StartupWav == "pyportal_startup.wav"
WavNames == {StartupWav, "beep.wav", "missing.wav"}
FileExists(f) == f = "beep.wav" \/ (f = StartupWav /\ env.wav)

\* play_file up to the wait loop: open, WaveFile, enable, play
PlayFile(file, wait) ==
    /\ pc = "idle"
    /\ call' = "play_file"
    /\ args' = [NoArgs EXCEPT !.file = file, !.wait = wait]
    /\ ret' = "None"
    /\ IF ~FileExists(file)
       THEN /\ exc' = "OSError" /\ log' = <<>>
            /\ UNCHANGED <<pc, audio>>
       ELSE /\ exc' = "none"
            /\ audio' = [speaker_enable |-> TRUE, playing |-> TRUE,
                         wavfile |-> "open"]
            /\ log' = <<Ev("enable"), Ev("play")>>
            /\ pc' = IF wait THEN "play_wait" ELSE "idle"
    /\ UNCHANGED <<env, self, display, sd, esp, wrap>>
    /\ UNCHANGED fetchVars

\* the audio output comes to the end of the sample
AudioFinish ==
    /\ audio.playing
    /\ audio' = [audio EXCEPT !.playing = FALSE]
    /\ UNCHANGED <<env, pc, call, args, exc, ret, log, self, display, sd,
                   esp, wrap>>
    /\ UNCHANGED fetchVars

\* the mutant of PlayFileFinish: the speaker is left enabled
PlayFileFinishSpeakerOn ==
    /\ pc = "play_wait"
    /\ ~audio.playing
    /\ audio' = [audio EXCEPT !.wavfile = "closed"]
    /\ log' = Append(log, Ev("return"))
    /\ pc' = "idle"
    /\ UNCHANGED <<env, call, args, exc, ret, self, display, sd, esp, wrap>>
    /\ UNCHANGED fetchVars

\* while self.audio.playing: pass; then close the file, disable the speaker
PlayFileFinish ==
    /\ pc = "play_wait"
    /\ ~audio.playing
    /\ audio' = [audio EXCEPT !.wavfile = "closed", !.speaker_enable = FALSE]
    /\ log' = Append(log, Ev("return"))
    /\ pc' = "idle"
    /\ UNCHANGED <<env, call, args, exc, ret, self, display, sd, esp, wrap>>
    /\ UNCHANGED fetchVars

CaptionTexts == {<<>>, <<"H", "i">>, <<"Y", "o">>}
Positions == {"None", "P1", "P2"}

SetCaption(text, position, color) ==
    /\ pc = "idle"
    /\ call' = "set_caption"
    /\ args' = [NoArgs EXCEPT !.text = text, !.position = position,
                              !.color = color]
    /\ LET r == set_caption(self, display, text, position, color)
       IN  exc' = r.exc /\ display' = r.d
    /\ ret' = "None" /\ log' = <<>>
    /\ UNCHANGED <<env, pc, self, audio, sd, esp, wrap>>
    /\ UNCHANGED fetchVars

\* set_text(val, index): without a text font nothing is looked at; with
\* one, self._text_maxlen[index] raises IndexError past the last text box
TextVals ==
    {Str(<<>>), Str(<<"a", "b">>), Str(<<"a", "b", "c", "d">>), NoneNode,
     Obj(<<Member("a", Str(<<"7">>))>>)}
TextIndexes == {1, 2}

SetText(val, index) ==
    /\ pc = "idle"
    /\ call' = "set_text"
    /\ args' = [NoArgs EXCEPT !.node = val, !.index = index]
    /\ IF self._text_font # "None" /\ index > Len(self._text_maxlen)
       THEN exc' = "IndexError" /\ display' = display
       ELSE /\ exc' = "none"
            /\ display' = set_text(self, display, PyStr(val), index)
    /\ ret' = "None" /\ log' = <<>>
    /\ UNCHANGED <<env, pc, self, audio, sd, esp, wrap>>
    /\ UNCHANGED fetchVars

\* ------------------------------------------------------------------ fetch
\* the mutant of NewUrl: refresh_url is not stored
NewUrlNotStored(url, refresh_url) == url

\* if refresh_url: self._url = refresh_url
NewUrl(url, refresh_url) == IF Truthy(refresh_url) THEN refresh_url ELSE url

RefreshUrls == {"None", "", "U1"}

FetchStart(refresh_url) ==
    /\ pc = "idle"
    /\ call' = "fetch"
    /\ args' = [NoArgs EXCEPT !.url = refresh_url]
    /\ self' = [self EXCEPT !._url = NewUrl(self._url, refresh_url)]
    /\ loc' = NoLocals
    /\ cb_arg' = NoValues
    /\ requested' = "None"
    /\ exc' = "none" /\ ret' = "None" /\ log' = <<>>
    /\ pc' = "f_get"
    /\ UNCHANGED <<env, display, audio, sd, esp, wrap>>

\* fetch ends with an exception: its local variables are gone
Raise(e, x) ==
    /\ pc' = "idle"
    /\ exc' = x
    /\ log' = Append(log, Raised(e, x))
    /\ loc' = NoLocals

\* r = Fake_Requests(LOCALFILE) when local.txt was found by __init__;
\* otherwise _connect_esp() and r = requests.get(self._url, ...), which
\* raises RuntimeError when the request fails and AttributeError for a url
\* of None
FetchGet(fails, ok, body) ==
    /\ pc = "f_get"
    /\ IF self._uselocal
       THEN /\ loc' = [loc EXCEPT !.r = env.localtext]
            /\ log' = Append(log, Ev("open_local"))
            /\ pc' = "f_json"
            /\ UNCHANGED <<exc, esp, requested>>
       ELSE LET con == _connect_esp(esp, fails)
            IN  IF con.exc # "none"
                THEN /\ Raise("connect", con.exc)
                     /\ UNCHANGED <<esp, requested>>
                ELSE /\ esp' = con.connected
                     /\ requested' = self._url
                     /\ IF ~Truthy(self._url)
                        THEN /\ pc' = "idle" /\ exc' = "AttributeError"
                             /\ log' = log \o con.events
                                       \o <<Raised("get", "AttributeError")>>
                             /\ loc' = NoLocals
                        ELSE IF ~ok
                        THEN /\ pc' = "idle" /\ exc' = "RuntimeError"
                             /\ log' = log \o con.events
                                       \o <<Raised("get", "RuntimeError")>>
                             /\ loc' = NoLocals
                        ELSE /\ pc' = "f_json"
                             /\ log' = log \o con.events \o <<Ev("get")>>
                             /\ loc' = [loc EXCEPT !.r = body]
                             /\ UNCHANGED exc
    /\ UNCHANGED <<env, call, args, ret, self, display, audio, sd, cb_arg,
                   wrap>>

\* json_out = r.json() when a json path is configured; ValueError is
\* raised again, MemoryError reloads the program
FetchJson(memerr) ==
    /\ pc = "f_json"
    /\ IF self._image_json_path # <<>> \/ self._json_path # <<>>
       THEN IF memerr
            THEN /\ pc' = "reloaded"
                 /\ exc' = "MemoryError"
                 /\ log' = Append(log, Raised("json", "MemoryError"))
                 /\ loc' = NoLocals
            ELSE LET j == JsonLoads(loc.r)
                 IN  IF j.exc # "none"
                     THEN Raise("json", j.exc)
                     ELSE /\ loc' = [loc EXCEPT !.json_out = j.v]
                          /\ log' = Append(log, Ev("json"))
                          /\ pc' = "f_extract"
                          /\ UNCHANGED exc
       ELSE /\ pc' = "f_extract"
            /\ UNCHANGED <<loc, log, exc>>
    /\ UNCHANGED <<env, call, args, ret, self, display, audio, sd, esp,
                   cb_arg, requested, wrap>>

\* the results of a for loop that appends one result per element and stops
\* at the first exception
LoopResults(results) ==
    IF \E i \in 1..Len(results) : results[i].exc # "none"
    THEN [exc |-> results[CHOOSE i \in 1..Len(results) :
                            results[i].exc # "none"
                            /\ \A j \in 1..(i-1) : results[j].exc = "none"].exc,
          values |-> NoValues]
    ELSE [exc |-> "none",
          values |-> [islist |-> TRUE,
                      items |-> [i \in 1..Len(results) |-> results[i].v],
                      text |-> <<>>]]

\* the mutant of ExtractValues: the regexps are tried before the json paths
ExtractValuesRegexpFirst(s, r, json_out) ==
    IF s._regexp_path # <<>>
    THEN LoopResults([i \in 1..Len(s._regexp_path) |->
                         ReSearchGroup1(s._regexp_path[i], r)])
    ELSE IF s._json_path # <<>>
    THEN LoopResults([i \in 1..Len(s._json_path) |->
                         _json_traverse(json_out, s._json_path[i])])
    ELSE [exc |-> "none",
          values |-> [islist |-> FALSE, items |-> <<>>, text |-> r]]

\* extract desired text/values: json paths, else regexps, else the text
ExtractValues(s, r, json_out) ==
    IF s._json_path # <<>>
    THEN LoopResults([i \in 1..Len(s._json_path) |->
                         _json_traverse(json_out, s._json_path[i])])
    ELSE IF s._regexp_path # <<>>
    THEN LoopResults([i \in 1..Len(s._regexp_path) |->
                         ReSearchGroup1(s._regexp_path[i], r)])
    ELSE [exc |-> "none",
          values |-> [islist |-> FALSE, items |-> <<>>, text |-> r]]

\* the values, then the image url: image_url_path, replaced by what
\* image_json_path leads to; a KeyError there sets the default background
FetchExtract ==
    /\ pc = "f_extract"
    /\ LET x   == ExtractValues(self, loc.r, loc.json_out)
           img == _json_traverse(loc.json_out, self._image_json_path)
       IN  IF x.exc # "none"
           THEN /\ Raise("extract", x.exc)
                /\ UNCHANGED display
           ELSE IF self._image_json_path = <<>>
           THEN /\ loc' = [loc EXCEPT !.values = x.values,
                                      !.image_url = self._image_url_path]
                /\ log' = Append(log, Ev("extract"))
                /\ pc' = "f_image"
                /\ UNCHANGED <<exc, display>>
           ELSE IF img.exc = "KeyError"
           THEN /\ loc' = [loc EXCEPT !.values = x.values,
                                      !.image_url = self._image_url_path]
                /\ display' = set_background(display, DefaultBg, TRUE).d
                /\ log' = log \o <<Ev("extract"),
                                   Raised("image_path", "KeyError")>>
                /\ pc' = "f_image"
                /\ UNCHANGED exc
           ELSE IF img.exc # "none"
           THEN /\ pc' = "idle" /\ exc' = img.exc
                /\ log' = log \o <<Ev("extract"),
                                   Raised("image_path", img.exc)>>
                /\ loc' = NoLocals
                /\ UNCHANGED display
           ELSE /\ loc' = [loc EXCEPT !.values = x.values,
                                      !.image_url = PyStr(img.v)]
                /\ log' = Append(log, Ev("extract"))
                /\ pc' = "f_image"
                /\ UNCHANGED <<exc, display>>
    /\ UNCHANGED <<env, call, args, ret, self, audio, sd, esp, cb_arg,
                   requested, wrap>>

\* What wget can end with: "ok"; RuntimeError when requests.get fails or the
\* file is not complete; KeyError without a content-length header;
\* ValueError when that header is no number; OSError when the file cannot be
\* written.
WgetOutcomes == {"ok", "RuntimeError", "KeyError", "ValueError", "OSError"}

\* wget(url, filename): requests.get fails without a WiFi connection, and
\* open(filename, "wb") fails under /sd when nothing is mounted there
wget(s, outcome) ==
    IF ~esp THEN "RuntimeError"
    ELSE IF outcome = "ok" /\ s._sdcard /\ ~sd.mounted THEN "OSError"
    ELSE outcome

\* the file the image is cached in
CacheFile(s) == IF s._sdcard THEN "/sd/cache.bmp" ELSE "/cache.bmp"

\* if image_url: image_converter_url (KeyError without the aio secrets),
\* wget, set_background; ValueError sets the default background, every
\* other exception leaves fetch
FetchImage(outcome, readable) ==
    /\ pc = "f_image"
    /\ IF loc.image_url = <<>>
       THEN /\ pc' = "f_callback"
            /\ UNCHANGED <<loc, log, exc, display>>
       ELSE IF ~env.aio
       THEN /\ Raise("image_converter_url", "KeyError")
            /\ UNCHANGED display
       ELSE IF wget(self, outcome) = "ValueError"
       THEN /\ display' = set_background(display, DefaultBg, TRUE).d
            /\ log' = Append(log, Raised("wget", "ValueError"))
            /\ loc' = [loc EXCEPT !.image_url = <<>>]
            /\ pc' = "f_callback"
            /\ UNCHANGED exc
       ELSE IF wget(self, outcome) # "ok"
       THEN /\ Raise("wget", wget(self, outcome))
            /\ UNCHANGED display
       ELSE LET b == set_background(display, CacheFile(self), readable)
            IN  /\ display' = IF b.exc = "ValueError"
                              THEN set_background(b.d, DefaultBg, TRUE).d
                              ELSE b.d
                /\ log' = log \o <<Ev("wget"),
                                   IF b.exc = "ValueError"
                                   THEN Raised("set_background", "ValueError")
                                   ELSE Ev("set_background")>>
                /\ loc' = [loc EXCEPT !.image_url = <<>>]
                /\ pc' = "f_callback"
                /\ UNCHANGED exc
    /\ UNCHANGED <<env, call, args, ret, self, audio, sd, esp, cb_arg,
                   requested, wrap>>

\* if self._success_callback: self._success_callback(values)
FetchCallback ==
    /\ pc = "f_callback"
    /\ IF self._success_callback
       THEN /\ cb_arg' = loc.values
            /\ log' = Append(log, Ev("callback"))
       ELSE UNCHANGED <<cb_arg, log>>
    /\ pc' = "f_text"
    /\ UNCHANGED <<env, call, args, exc, ret, self, display, audio, sd, esp,
                   loc, requested, wrap>>

\* values[i]: an element of the list, or a character of the text
ValueAt(values, i) ==
    IF values.islist
    THEN IF i <= Len(values.items)
         THEN [exc |-> "none", v |-> values.items[i]]
         ELSE [exc |-> "IndexError", v |-> NoneNode]
    ELSE IF i <= Len(values.text)
         THEN [exc |-> "none", v |-> Str(<<values.text[i]>>)]
         ELSE [exc |-> "IndexError", v |-> NoneNode]

\* "{:,d}".format(int(v)), or v itself when int(v) raises
Formatted(v) ==
    IF v.kind = "str" /\ IsIntStr(v.s) THEN Str(FormatComma(IntVal(v.s)))
    ELSE v

\* one text block: format, wrap, set_text; no text_transform is given
FillOne(s, d, values, i) ==
    LET at == ValueAt(values, i)
        f  == Formatted(at.v)
    IN  IF at.exc # "none" THEN [exc |-> at.exc, d |-> d]
        ELSE IF s._text_wrap[i] # 0
        THEN IF f.kind # "str" THEN [exc |-> "AttributeError", d |-> d]
             ELSE [exc |-> "none",
                   d |-> set_text(s, d,
                                  Join(<<"\n">>,
                                       wrap_nicely(f.s, s._text_wrap[i])), i)]
        ELSE [exc |-> "none", d |-> set_text(s, d, PyStr(f), i)]

\* fill out all the text blocks, from block i on
RECURSIVE FillFrom(_, _, _, _)
FillFrom(s, d, values, i) ==
    IF i > Len(d._text) THEN [exc |-> "none", d |-> d]
    ELSE LET one == FillOne(s, d, values, i)
         IN  IF one.exc # "none" THEN one
             ELSE FillFrom(s, one.d, values, i+1)

FetchText ==
    /\ pc = "f_text"
    /\ LET f == FillFrom(self, display, loc.values, 1)
       IN  /\ display' = f.d
           /\ IF f.exc # "none"
              THEN Raise("set_text", f.exc)
              ELSE /\ pc' = "idle"
                   /\ log' = IF Len(display._text) > 0
                             THEN Append(log, Ev("set_text")) ELSE log
                   /\ loc' = NoLocals
                   /\ UNCHANGED exc
    /\ UNCHANGED <<env, call, args, ret, self, audio, sd, esp, cb_arg,
                   requested, wrap>>

\* the access point goes away between two calls
WifiDrop ==
    /\ pc = "idle"
    /\ esp
    /\ esp' = FALSE
    /\ UNCHANGED <<env, pc, call, args, exc, ret, log, self, display, audio,
                   sd, loc, cb_arg, requested, wrap>>

\* ------------------------------------------------------------ wrap_nicely
WrapAlphabet == {"a", " ", "\n"}
StringsUpTo(n) == UNION {[1..k -> WrapAlphabet] : k \in 0..n}

WrapCall ==
    /\ pc = "static"
    /\ ~wrap.done
    /\ wrap' = [wrap EXCEPT !.lines = wrap_nicely(wrap.string, wrap.max_chars),
                            !.done = TRUE]
    /\ UNCHANGED <<env, pc, call, args, exc, ret, log, self, display, audio,
                   sd, esp>>
    /\ UNCHANGED fetchVars

\* --------------------------------------------------------- specifications
DefaultEnv ==
    [localfile |-> FALSE, localtext |-> BodyA, pwm |-> TRUE, sd |-> "none",
     wav |-> FALSE, aio |-> TRUE, ssid_ok |-> TRUE, esp_up |-> FALSE]

InitRest ==
    /\ call = "None" /\ args = NoArgs /\ exc = "none" /\ ret = "None"
    /\ log = <<>> /\ self = NoSelf /\ display = NoDisplay /\ audio = NoAudio
    /\ sd = [mounted |-> FALSE, reported |-> FALSE]
    /\ esp = env.esp_up
    /\ loc = NoLocals /\ cb_arg = NoValues /\ requested = "None"

\* The peripherals: backlight, SD card, speaker, caption.
PeriphEnvs ==
    {[DefaultEnv EXCEPT !.pwm = p, !.sd = c, !.wav = w] :
        p \in BOOLEAN, c \in {"none", "nofs", "ok"}, w \in BOOLEAN}

PeriphArgs ==
    {[DefaultArgs EXCEPT !.caption_text = t, !.caption_font = f,
                         !.caption_position = q] :
        t \in {<<>>, <<"H", "i">>}, f \in {"None", "font"},
        q \in {"None", "P1"}}

InitPeriph ==
    /\ env \in PeriphEnvs
    /\ pc = "new"
    /\ wrap = NoWrap
    /\ InitRest

NextPeriph ==
    \/ \E a \in PeriphArgs : Construct(a, 0)
    \/ \E val \in BacklightVals : SetBacklight(val)
    \/ SdCheck
    \/ \E value \in BOOLEAN : SetSpeakerDisable(value)
    \/ \E file \in WavNames, wait \in BOOLEAN : PlayFile(file, wait)
    \/ AudioFinish
    \/ PlayFileFinish
    \/ \E t \in CaptionTexts, q \in Positions : SetCaption(t, q, "808000")

SpecPeriph == InitPeriph /\ [][NextPeriph]_vars

\* The static method wrap_nicely on every short string.
InitWrap ==
    /\ env = DefaultEnv
    /\ pc = "static"
    /\ wrap \in {[string |-> str, max_chars |-> m, lines |-> <<>>,
                  done |-> FALSE] :
                    str \in StringsUpTo(MaxLen), m \in 0..MaxChars}
    /\ InitRest

NextWrap == WrapCall

SpecWrap == InitWrap /\ [][NextWrap]_vars

\* The data path: construction and fetch.
RegexpX == <<"x", "=">>
RegexpY == <<"y", "=">>

\* With the network: the aio secrets and the SD card vary, and the ssid may
\* be left at 'CHANGE ME'.  With local.txt: its text varies, and the esp
\* object given to the constructor may be connected already.
FetchEnvs ==
    {[DefaultEnv EXCEPT !.aio = k, !.sd = c] :
        k \in BOOLEAN, c \in {"none", "ok"}}
    \cup {[DefaultEnv EXCEPT !.ssid_ok = FALSE]}
    \cup {[DefaultEnv EXCEPT !.localfile = TRUE, !.localtext = t,
                             !.esp_up = e] :
            t \in Bodies, e \in BOOLEAN}

TextBox == [font |-> TRUE, position |-> "P1", color |-> "808080",
            wrap |-> 2, maxlen |-> 3, boxes |-> <<>>]

\* The constructor's arguments: every way of extracting values without an
\* image, every way of naming an image with no or one json path, and no url.
ExtractArgs ==
    {[DefaultArgs EXCEPT !.url = "U0", !.json_path = j, !.regexp_path = x,
                         !.success_callback = cb, !.text = t] :
        j \in {NoJsonPath, FlatPath(<<"a">>), FlatPath(<<"a", "b">>),
               NestedPath(<< <<"a">>, <<"i">> >>)},
        x \in {<<>>, <<RegexpX, RegexpY>>, <<RegexpX>>},
        cb \in BOOLEAN,
        t \in {NoText, TextBox}}

ImageArgs ==
    {[DefaultArgs EXCEPT !.url = "U0", !.json_path = j,
                         !.image_json_path = ij, !.image_url_path = iu,
                         !.success_callback = cb, !.text = t] :
        j \in {NoJsonPath, FlatPath(<<"a">>)},
        ij \in {<<>>, <<"i">>},
        iu \in {<<>>, <<"h">>},
        cb \in BOOLEAN,
        t \in {NoText, TextBox}}

NoUrlArgs ==
    {[DefaultArgs EXCEPT !.json_path = FlatPath(<<"a">>),
                         !.image_url_path = iu, !.success_callback = TRUE] :
        iu \in {<<>>, <<"h">>}}

FetchArgs == ExtractArgs \cup ImageArgs \cup NoUrlArgs

Init ==
    /\ env \in FetchEnvs
    /\ pc = "new"
    /\ wrap = NoWrap
    /\ InitRest

Next ==
    \/ \E a \in FetchArgs, fails \in 0..MaxConnectFail : Construct(a, fails)
    \/ \E u \in RefreshUrls : FetchStart(u)
    \/ \E fails \in 0..MaxConnectFail, ok \in BOOLEAN, body \in Bodies :
          FetchGet(fails, ok, body)
    \/ \E memerr \in BOOLEAN : FetchJson(memerr)
    \/ FetchExtract
    \/ \E outcome \in WgetOutcomes, readable \in BOOLEAN :
          FetchImage(outcome, readable)
    \/ FetchCallback
    \/ FetchText
    \/ WifiDrop

Spec == Init /\ [][Next]_vars

\* The text boxes: no text font, one box, or a list of two boxes, with and
\* without a maximum length.
TextArgs ==
    {[DefaultArgs EXCEPT !.text = t] :
        t \in {NoText}
            \cup {[TextBox EXCEPT !.wrap = 0, !.maxlen = m] : m \in {0, 3}}
            \cup {[TextBox EXCEPT !.boxes = <<Box("P1", "808080", 0, m[1]),
                                              Box("P2", "FF0000", 0, m[2])>>] :
                     m \in {<<0, 2>>, <<3, 0>>}}}

InitText ==
    /\ env = DefaultEnv
    /\ pc = "new"
    /\ wrap = NoWrap
    /\ InitRest

NextText ==
    \/ \E a \in TextArgs : Construct(a, 0)
    \/ \E val \in TextVals, index \in TextIndexes : SetText(val, index)

SpecText == InitText /\ [][NextText]_vars

\* ------------------------------------------------------------------ claims
\* every value inside a parsed JSON value, itself included
RECURSIVE AllNodes(_)
AllNodes(node) ==
    {node} \cup UNION {AllNodes(node.kv[i].v) : i \in 1..Len(node.kv)}

\* v is what following path from doc, one member per key, leads to
LeadsTo(doc, path, v) ==
    \E chain \in [1..(Len(path) + 1) -> AllNodes(doc)] :
        /\ chain[1] = doc
        /\ chain[Len(path) + 1] = v
        /\ \A k \in 1..Len(path) :
              \E m \in 1..Len(chain[k].kv) :
                  /\ chain[k].kv[m].k = path[k]
                  /\ chain[k].kv[m].v = chain[k+1]

\* c is group 1 of the first match of the regexp lit(.) in text
FirstGroup(lit, text, c) ==
    \E i \in 1..Len(text) :
        /\ MatchesAt(lit, text, i)
        /\ c = text[i + Len(lit)]
        /\ ~\E j \in 1..(i-1) : MatchesAt(lit, text, j)

\* fetch has extracted its values and has not returned yet
Extracted == pc \in {"f_image", "f_callback", "f_text"}

\* C1: the values fetch extracts are one value per json path, reached by
\* following the path through the parsed reply; without json paths, one value
\* per regexp, group 1 of its first match in the reply text; without either,
\* the reply text.  Json paths win over regexps.
C1_ExtractedValues ==
    Extracted =>
        IF self._json_path # <<>>
        THEN /\ loc.values.islist
             /\ Len(loc.values.items) = Len(self._json_path)
             /\ \A i \in 1..Len(self._json_path) :
                   LeadsTo(JsonLoads(loc.r).v, self._json_path[i],
                           loc.values.items[i])
        ELSE IF self._regexp_path # <<>>
        THEN /\ loc.values.islist
             /\ Len(loc.values.items) = Len(self._regexp_path)
             /\ \A i \in 1..Len(self._regexp_path) :
                   /\ loc.values.items[i].kind = "str"
                   /\ Len(loc.values.items[i].s) = 1
                   /\ FirstGroup(self._regexp_path[i], loc.r,
                                 loc.values.items[i].s[1])
        ELSE /\ ~loc.values.islist
             /\ loc.values.text = loc.r

\* json paths and regexps are both configured, the reply holds matches of
\* the regexps, and two values were extracted along the json paths
C1_Witness ==
    /\ Extracted
    /\ Len(self._json_path) = 2
    /\ self._regexp_path # <<>>
    /\ Len(loc.values.items) = 2

\* the regexp branch was taken, with two regexps
C1_WitnessRegexp ==
    /\ Extracted
    /\ self._json_path = <<>>
    /\ Len(self._regexp_path) = 2
    /\ loc.values.items = <<Str(<<"5">>), Str(<<"6">>)>>

\* what reaches the network: a WiFi connection attempt or an HTTP request
NetworkEvents == {"connect", "get", "wget"}

\* C2: with local.txt present at construction, neither the constructor nor
\* any fetch connects to WiFi or issues an HTTP request, image handling
\* included, and fetch takes its data from local.txt.
C2_LocalNeverUsesNetwork ==
    (self._uselocal /\ call \in {"__init__", "fetch"}) =>
        /\ Events(log) \cap NetworkEvents = {}
        /\ pc \in {"f_json", "f_extract", "f_image", "f_callback", "f_text"}
              => loc.r = env.localtext

\* the part of C2 that does hold: no WiFi connection and no request for the
\* data, and the data are those of local.txt
C2_LocalDataNotFromNetwork ==
    (self._uselocal /\ call \in {"__init__", "fetch"}) =>
        /\ Events(log) \cap {"connect", "get"} = {}
        /\ requested = "None"
        /\ pc \in {"f_json", "f_extract", "f_image", "f_callback", "f_text"}
              => loc.r = env.localtext

\* where event e stands in the log of the call, 0 when it does not
Position(e) ==
    IF e \in Events(log)
    THEN CHOOSE i \in 1..Len(log) :
            log[i].ev = e /\ \A j \in 1..(i-1) : log[j].ev # e
    ELSE 0

Count(e) == Cardinality({i \in 1..Len(log) : log[i].ev = e})

RaisedIn(steps) ==
    \E i \in 1..Len(log) : log[i].ev \in steps /\ log[i].exc # "none"

\* success_callback is called at most once in a fetch, with the extracted
\* values, after retrieval, parsing, extraction and image handling, before
\* any text field is updated
C3_CallbackOrder ==
    call = "fetch" =>
        /\ Count("callback") <= 1
        /\ "callback" \in Events(log) =>
              /\ self._success_callback
              /\ pc = "f_text" => cb_arg = loc.values
              /\ \E i \in 1..Len(log) : log[i].ev \in {"get", "open_local"}
                                        /\ i < Position("callback")
              /\ Position("extract") \in 1..(Position("callback") - 1)
              /\ \A i \in 1..Len(log) :
                    log[i].ev \in {"json", "wget", "set_background",
                                   "image_path"}
                        => i < Position("callback")
              /\ \A i \in 1..Len(log) :
                    log[i].ev = "set_text" => i > Position("callback")
        /\ pc = "f_text" /\ self._success_callback
              => "callback" \in Events(log)

\* success_callback is not called in a fetch in which retrieval, JSON
\* parsing, value extraction or the image download raised
C3_NoCallbackAfterRaise ==
    (call = "fetch"
       /\ RaisedIn({"connect", "get", "json", "extract", "wget"}))
        => "callback" \notin Events(log)

\* C3: success_callback is called at most once per fetch, with the extracted
\* values, only after the reply was retrieved and parsed, the values
\* extracted and the image processed, before any text field is updated, and
\* never in a fetch in which retrieval, parsing, extraction or the image
\* download raised.
C3_SuccessCallback == C3_CallbackOrder /\ C3_NoCallbackAfterRaise

\* C4: fetch(refresh_url=u) with a non-empty u stores u; a fetch without
\* refresh_url, or with an empty one, leaves the stored url alone; nothing
\* else changes it; and the request of a fetch is for the stored url.
C4_RefreshUrl ==
    /\ [][(pc = "idle" /\ pc' = "f_get") =>
            self'._url = IF args'.url \notin {"None", ""}
                         THEN args'.url ELSE self._url]_vars
    /\ [][(pc # "new" /\ ~(pc = "idle" /\ pc' = "f_get")) =>
            self'._url = self._url]_vars
    /\ []((call = "fetch" /\ "get" \in Events(log)) => requested = self._url)
    /\ []((call = "fetch" /\ ~self._uselocal
           /\ pc \in {"f_json", "f_extract", "f_image", "f_callback",
                      "f_text"})
            => ("get" \in Events(log) /\ requested = self._url))

\* a fetch without refresh_url requests the url an earlier fetch stored
C4_Witness ==
    /\ call = "fetch" /\ args.url = "None" /\ pc = "f_json"
    /\ requested = "U1"

\* C5: set_backlight(val) applies val clamped into 0..1: with a PWM
\* backlight the duty cycle is int(clamped * 65535), within 0..65535;
\* without one auto_brightness is off and the brightness is the clamped val.
C5_Backlight ==
    call = "set_backlight" =>
        LET c == IF args.val < 0 THEN 0
                 ELSE IF args.val > 100 THEN 100 ELSE args.val
        IN  IF self._backlight = "pwm"
            THEN /\ display.duty_cycle \in 0..65535
                 /\ display.duty_cycle * 100 <= c * 65535
                 /\ c * 65535 < (display.duty_cycle + 1) * 100
            ELSE /\ ~display.auto_brightness
                 /\ display.brightness = c

\* a value above 1 was given with a PWM backlight
C5_Witness ==
    /\ call = "set_backlight" /\ args.val = 250
    /\ self._backlight = "pwm" /\ display.duty_cycle = 65535

\* a value below 0 was given without a PWM backlight
C5_WitnessNoPwm ==
    /\ call = "set_backlight" /\ args.val = -50
    /\ self._backlight = "None" /\ display.brightness = 0

\* C6: sd_check() returns True exactly when the SD initialisation found a
\* card and mounted it at /sd, and False exactly when the initialisation hit
\* an OSError and reported 'No SD card found'.
C6_SdCheck ==
    call = "sd_check" =>
        /\ ret = "True" <=> sd.mounted
        /\ ret = "False" <=> sd.reported

\* what does hold: sd_check() tells whether the SDCard object was made
C6_SdCheckCardObject ==
    call = "sd_check" => (ret = "True" <=> env.sd # "none")

\* C7: play_file(file, wait_to_finish=True) enables the speaker before the
\* playback starts and returns only when the audio output has stopped, with
\* the speaker disabled and the wav file closed; when open() raises OSError
\* the speaker pin is unchanged and nothing is played.
C7_PlayFile ==
    /\ []((call = "play_file" /\ args.wait /\ pc = "idle" /\ exc = "none")
            => /\ ~audio.playing
               /\ speaker_disable(audio)
               /\ audio.wavfile = "closed"
               /\ log = <<Ev("enable"), Ev("play"), Ev("return")>>)
    /\ [](pc = "play_wait" => (~speaker_disable(audio)
                                /\ SubSeq(log, 1, 2)
                                     = <<Ev("enable"), Ev("play")>>))
    /\ [][((\E f \in WavNames, w \in BOOLEAN : PlayFile(f, w))
            /\ exc' = "OSError")
            => (audio' = audio /\ log' = <<>> /\ pc' = "idle")]_vars

\* play_file with wait_to_finish=True has returned
C7_Witness ==
    /\ call = "play_file" /\ args.wait /\ pc = "idle" /\ exc = "none"
    /\ Len(log) = 3

\* open() raised OSError while an earlier sound was still playing
C7_WitnessOSError ==
    /\ call = "play_file" /\ exc = "OSError" /\ audio.playing

\* C8: set_caption returns without raising and without touching the display
\* when caption_text is empty, or no caption font was given to the
\* constructor, or caption_position is empty, in the call of the
\* constructor and in every later call.
C8_CaptionNothingToDo ==
    /\ [][(\E t \in CaptionTexts, q \in Positions :
              /\ SetCaption(t, q, "808000")
              /\ (t = <<>> \/ self._caption_font = "unset" \/ q = "None"))
            => (exc' = "none" /\ display' = display)]_vars
    /\ [][(\E a \in PeriphArgs :
              /\ Construct(a, 0)
              /\ (a.caption_text = <<>> \/ a.caption_font = "None"
                  \/ a.caption_position = "None"))
            => (exc' = "none" /\ pc' = "idle"
                /\ ~display'._caption.present
                /\ display'.splash = <<BgGroup>>)]_vars

\* what does hold: nothing is done and nothing raised when caption_text is
\* empty, or when a font was given and caption_position is empty
C8_CaptionNothingToDoWithFont ==
    [][(\E t \in CaptionTexts, q \in Positions :
           /\ SetCaption(t, q, "808000")
           /\ (t = <<>> \/ (self._caption_font # "unset" /\ q = "None")))
         => (exc' = "none" /\ display' = display)]_vars

\* a line has one word only
SingleWord(line) == \A i \in 1..Len(line) : line[i] # " "

\* C9: every line wrap_nicely returns has at most max_chars characters,
\* unless it is one single word that is longer than max_chars by itself.
C9_LineLength ==
    wrap.done =>
        \A k \in 1..Len(wrap.lines) :
            \/ Len(wrap.lines[k]) <= wrap.max_chars
            \/ SingleWord(wrap.lines[k])

\* several lines, one of them full to the last character with two words
C9_Witness ==
    /\ wrap.done
    /\ Len(wrap.lines) >= 2
    /\ \E k \in 1..Len(wrap.lines) :
          /\ Len(wrap.lines[k]) = wrap.max_chars
          /\ ~SingleWord(wrap.lines[k])

\* one word longer than max_chars on a line of its own
C9_WitnessLongWord ==
    /\ wrap.done
    /\ \E k \in 1..Len(wrap.lines) : Len(wrap.lines[k]) > wrap.max_chars

\* the first word of a line: what precedes its first space
FirstWord(line) ==
    IF SingleWord(line) THEN line
    ELSE SubSeq(line, 1, (CHOOSE i \in 1..Len(line) :
                            line[i] = " "
                            /\ \A j \in 1..(i-1) : line[j] # " ") - 1)

\* C10: a word starts a new line only if the returned line before it,
\* followed by one space and that word, would be longer than max_chars;
\* for the first line as for every other.
C10_WrapOnlyWhenNeeded ==
    wrap.done =>
        \A k \in 2..Len(wrap.lines) :
            Len(wrap.lines[k-1]) + 1 + Len(FirstWord(wrap.lines[k]))
                > wrap.max_chars

\* what does hold: the same for every line but the first
C10_WrapOnlyWhenNeededAfterFirst ==
    wrap.done =>
        \A k \in 3..Len(wrap.lines) :
            Len(wrap.lines[k-1]) + 1 + Len(FirstWord(wrap.lines[k]))
                > wrap.max_chars

\* the first n characters of string, spelled out: t is string[:n]
IsCutTo(t, string, n) ==
    /\ Len(t) = (IF n < Len(string) THEN n ELSE Len(string))
    /\ \A k \in 1..Len(t) : t[k] = string[k]

\* set_text was the last call, it returned, and a text font is configured
TextWasSet == call = "set_text" /\ exc = "none" /\ self._text_font # "None"

\* C11: after set_text(val, index) with a text font, text box index shows
\* str(val) cut to its first text_maxlen[index] characters when
\* text_maxlen[index] is not 0 and str(val) in full when it is 0; a
\* set_text call without a text font changes nothing and does not raise.
C11_SetText ==
    /\ [](TextWasSet =>
            LET i == args.index
                n == self._text_maxlen[i]
                t == display._text[i].text
            IN  /\ display._text[i].present
                /\ \E k \in 1..Len(display.splash) :
                      display.splash[k] = TextElem(i)
                /\ IF n # 0 THEN IsCutTo(t, PyStr(args.node), n)
                   ELSE t = PyStr(args.node))
    /\ [][(call' = "set_text" /\ pc = "idle" /\ self._text_font = "None")
             => (display' = display /\ self' = self /\ exc' = "none")]_vars

\* set_text cut a longer string to the maximum length of the second box
C11_Witness ==
    /\ TextWasSet
    /\ args.index = 2
    /\ self._text_maxlen[2] = 2
    /\ Len(PyStr(args.node)) > 2
    /\ display._text[2].text = <<"a", "b">>

\* set_text showed a string in full in a box without a maximum length
C11_WitnessFull ==
    /\ TextWasSet
    /\ self._text_maxlen[args.index] = 0
    /\ Len(display._text[args.index].text) > 3

\* set_text was called on an object without a text font
C11_WitnessNoFont ==
    /\ call = "set_text"
    /\ self._text_font = "None"
    /\ args.node # NoneNode

====
